---- MODULE Spec2Model ----
(***************************************************************************)
(* TinyRenderer (src/src/tiny-renderer.ts): an RGBA pixel buffer and a     *)
(* depth buffer, drawn into by pixel(), line() and triangle().             *)
(*                                                                         *)
(* Numbers.  Screen coordinates, texture coordinates and intensities are   *)
(* fixed-point: the integer k stands for the real k/Q, so Math.trunc is a   *)
(* real operation (Trunc) and not the identity.  Depths and colour         *)
(* channels are exact rationals <<n, d>>; d = 0 stands for the value       *)
(* `undefined`/NaN.  Floating-point rounding of the doubles is not         *)
(* modelled.                                                               *)
(***************************************************************************)
EXTENDS Integers, Sequences, FiniteSets, TLC

VARIABLES status, width, height, data, zBuffer, last, prev, plotted, sampled, ops

vars == <<status, width, height, data, zBuffer, last, prev, plotted, sampled, ops>>

\* ------------------------------------------------------------------ bounds
W0 == 4
H0 == 4
Q == 2
MaxOps == 2
MaxDim == 2
TexDim == 2

\* ------------------------------------------------------------- arithmetic
BYTES_PER_PIXEL == 4

Abs(n) == IF n < 0 THEN -n ELSE n

Min3(a, b, c) == IF a <= b /\ a <= c THEN a ELSE IF b <= c THEN b ELSE c

Max3(a, b, c) == IF a >= b /\ a >= c THEN a ELSE IF b >= c THEN b ELSE c

\* Math.trunc of the rational n/d (d > 0): rounds toward zero.
TruncRat(n, d) == IF n >= 0 THEN n \div d ELSE -((-n) \div d)

\* Math.trunc of the fixed-point number k/Q.
Trunc(k) == TruncRat(k, Q)

RECURSIVE GCD(_, _)
GCD(a, b) == IF b = 0 THEN a ELSE GCD(b, a % b)

\* The number n/d (d > 0) in lowest terms.
Rat(n, d) == LET g == GCD(Abs(n), d) IN <<n \div g, d \div g>>

\* Storing a number into a Uint8ClampedArray: NaN/undefined -> 0, clamped
\* to [0,255], rounded to nearest with ties to even.
ToUint8Clamp(c) ==
    LET n == c[1]
        d == c[2]
    IN  IF d = 0 THEN 0
        ELSE IF n <= 0 THEN 0
        ELSE IF n >= 255 * d THEN 255
        ELSE LET f == n \div d
                 r == n % d
             IN  IF 2 * r < d THEN f
                 ELSE IF 2 * r > d THEN f + 1
                 ELSE IF f % 2 = 0 THEN f ELSE f + 1

\* A Color given as four integers, as numbers.
Num(color) == [i \in 1..4 |-> <<color[i], 1>>]

\* ------------------------------------------------------------ constructor
NegInf == <<0, 0, 1>>

Finite(z) == <<1, z[1], z[2]>>

NoData == [i \in {} |-> 0]

\* ctx.createImageData(sw, sh) then the fill loop: |sw| x |sh| pixels, each
\* (0,0,0,255).
blackData(w, h) ==
    [i \in 0..(Abs(w) * Abs(h) * BYTES_PER_PIXEL - 1) |->
        IF i % BYTES_PER_PIXEL = 3 THEN 255 ELSE 0]

\* new Array(n).fill(-Infinity)
newZBuffer(n) == [i \in 0..(n - 1) |-> NegInf]

\* createImageData throws IndexSizeError when a size is 0;
\* new Array(width * height) throws RangeError when the product is negative.
ctorThrows(w, h) == w = 0 \/ h = 0 \/ w * h < 0

NoCall ==
    [op |-> "none", w |-> 0, h |-> 0,
     v0 |-> <<0, 0, 0>>, v1 |-> <<0, 0, 0>>, v2 |-> <<0, 0, 0>>,
     t0 |-> <<0, 0>>, t1 |-> <<0, 0>>, t2 |-> <<0, 0>>,
     color |-> <<0, 0, 0, 0>>, intensity |-> 0, texture |-> 0]

Construct(w, h) ==
    /\ status = "none"
    /\ last' = [NoCall EXCEPT !.op = "new", !.w = w, !.h = h]
    /\ prev' = last
    /\ IF ctorThrows(w, h)
       THEN /\ status' = "error"
            /\ width' = 0
            /\ height' = 0
            /\ data' = NoData
            /\ zBuffer' = NoData
       ELSE /\ status' = "ok"
            /\ width' = Abs(w)
            /\ height' = Abs(h)
            /\ data' = blackData(w, h)
            /\ zBuffer' = newZBuffer(w * h)
    /\ plotted' = <<>>
    /\ sampled' = <<>>
    /\ ops' = 0

\* ------------------------------------------------------------------ pixel
\* The pixel address pixel(v, ...) computes.
pixelAt(v) == <<Trunc(v[1]), Trunc(v[2])>>

pixelOffset(w, p) == (p[2] * w + p[1]) * BYTES_PER_PIXEL

\* A store to a typed array at an index outside it does nothing.
pixel(d, w, v, color) ==
    LET offset == pixelOffset(w, pixelAt(v))
    IN  [i \in DOMAIN d |->
            IF i >= offset /\ i < offset + BYTES_PER_PIXEL
            THEN ToUint8Clamp(color[i - offset + 1])
            ELSE d[i]]

DrawPixel(v, color) ==
    /\ status = "ok"
    /\ ops < MaxOps
    /\ last' = [NoCall EXCEPT !.op = "pixel", !.v0 = <<v[1], v[2], 0>>, !.color = color]
    /\ prev' = last
    /\ data' = pixel(data, width, v, Num(color))
    /\ plotted' = <<pixelAt(v)>>
    /\ sampled' = <<>>
    /\ ops' = ops + 1
    /\ UNCHANGED <<status, width, height, zBuffer>>

\* ------------------------------------------------------------------- line
lineSteep(v0, v1) == Abs(v1[2] - v0[2]) > Abs(v1[1] - v0[1])

\* <<x0, y0, x1, y1>> after the transposition of a steep line.
lineTranspose(v0, v1) ==
    IF lineSteep(v0, v1)
    THEN <<v0[2], v0[1], v1[2], v1[1]>>
    ELSE <<v0[1], v0[2], v1[1], v1[2]>>

\* Mutant of lineNormalize: the endpoints are never swapped.
lineNormalizeNoSwap(e) == e

\* <<x0, y0, x1, y1>> after the endpoint swap that makes x0 <= x1.
lineNormalize(e) == IF e[1] > e[3] THEN <<e[3], e[4], e[1], e[2]>> ELSE e

\* Mutant of lineLoop: the loop stops before x1 (x < x1).
RECURSIVE lineLoopExclusive(_, _, _, _, _, _, _, _)
lineLoopExclusive(x, x1, y, carry, dx, dy, sy, steep) ==
    IF x < x1
    THEN LET c == carry + sy
             up == c > dx
         IN  <<IF steep THEN <<y, x>> ELSE <<x, y>>>>
             \o lineLoopExclusive(x + Q, x1,
                                  IF up THEN y + (IF dy > 0 THEN Q ELSE -Q) ELSE y,
                                  IF up THEN c - dx * 2 ELSE c,
                                  dx, dy, sy, steep)
    ELSE <<>>

\* The loop of line(): the arguments of its pixel() calls, in order.
RECURSIVE lineLoop(_, _, _, _, _, _, _, _)
lineLoop(x, x1, y, carry, dx, dy, sy, steep) ==
    IF x <= x1
    THEN LET c == carry + sy
             up == c > dx
         IN  <<IF steep THEN <<y, x>> ELSE <<x, y>>>>
             \o lineLoop(x + Q, x1,
                         IF up THEN y + (IF dy > 0 THEN Q ELSE -Q) ELSE y,
                         IF up THEN c - dx * 2 ELSE c,
                         dx, dy, sy, steep)
    ELSE <<>>

linePixels(v0, v1) ==
    LET e == lineNormalize(lineTranspose(v0, v1))
        dx == e[3] - e[1]
        dy == e[4] - e[2]
        sy == Abs(dy) * 2
    IN  lineLoop(e[1], e[3], e[2], 0, dx, dy, sy, lineSteep(v0, v1))

RECURSIVE plotAll(_, _, _, _)
plotAll(d, w, ps, color) ==
    IF ps = <<>> THEN d
    ELSE plotAll(pixel(d, w, Head(ps), color), w, Tail(ps), color)

line(d, w, v0, v1, color) == plotAll(d, w, linePixels(v0, v1), Num(color))

DrawLine(v0, v1, color) ==
    /\ status = "ok"
    /\ ops < MaxOps
    /\ last' = [NoCall EXCEPT !.op = "line", !.v0 = <<v0[1], v0[2], 0>>,
                              !.v1 = <<v1[1], v1[2], 0>>, !.color = color]
    /\ prev' = last
    /\ data' = line(data, width, v0, v1, color)
    /\ plotted' = [i \in DOMAIN linePixels(v0, v1) |-> pixelAt(linePixels(v0, v1)[i])]
    /\ sampled' = <<>>
    /\ ops' = ops + 1
    /\ UNCHANGED <<status, width, height, zBuffer>>

\* --------------------------------------------------------------- triangle
\* The ImageData a triangle() call is given.  1: uniformly white;
\* 2: every texel a different colour.
Texture(id) ==
    [width |-> TexDim, height |-> TexDim,
     data |-> [i \in 0..(TexDim * TexDim * BYTES_PER_PIXEL - 1) |->
                  IF id = 1 THEN 255
                  ELSE LET k == i \div BYTES_PER_PIXEL
                           ch == i % BYTES_PER_PIXEL
                       IN  IF ch = 3 THEN 255
                           ELSE IF ch = 0 THEN (40 + 70 * (k % TexDim)) % 256
                           ELSE IF ch = 1 THEN (25 + 90 * (k \div TexDim)) % 256
                           ELSE 101]]

\* Twice the signed area of the triangle a, b, c.
cross2(a, b, c) == (b[1] - a[1]) * (c[2] - a[2]) - (b[2] - a[2]) * (c[1] - a[1])

\* barycentric(v0, v1, v2, p): the weights n[i]/d of p, d > 0; for collinear
\* vertices a vector with a negative component, (-1, 1, 1).
barycentric(a, b, c, p) ==
    LET area == cross2(a, b, c)
        s == IF area < 0 THEN -1 ELSE 1
    IN  IF area = 0 THEN [n |-> <<-1, 1, 1>>, d |-> 1]
        ELSE [n |-> <<s * cross2(p, b, c), s * cross2(a, p, c), s * cross2(a, b, p)>>,
              d |-> s * area]

\* getPixel(texture, [x, y]): the texel at the truncated address, read at
\* the flat offset (y * width + x) * 4; a channel outside the data is
\* undefined.
getPixel(tex, x, y) ==
    LET offset == (TruncRat(y[1], y[2]) * tex.width + TruncRat(x[1], x[2])) * BYTES_PER_PIXEL
    IN  [i \in 1..4 |->
            IF (offset + i - 1) \in DOMAIN tex.data
            THEN <<tex.data[offset + i - 1], 1>>
            ELSE <<0, 0>>]

\* scale(c, k): one channel times the intensity k/Q.
scale(c, k) == <<c[1] * k, c[2] * Q>>

\* const z = v0[2] * bc[0] + v1[2] * bc[1] + v2[2] * bc[2]
depthOf(call, bc) ==
    Rat(call.v0[3] * bc.n[1] + call.v1[3] * bc.n[2] + call.v2[3] * bc.n[3], bc.d)

\* Mutant of outside: the first weight is not tested.
outsideSkipsFirst(bc) == bc.n[2] < 0 \/ bc.n[3] < 0

\* bc[0] < 0 || bc[1] < 0 || bc[2] < 0
outside(bc) == bc.n[1] < 0 \/ bc.n[2] < 0 \/ bc.n[3] < 0

\* Mutant of depthFails: z < stored, so a tie passes.
depthFailsStrict(z, zb, idx) ==
    /\ idx \in DOMAIN zb
    /\ zb[idx][1] = 1
    /\ z[1] * zb[idx][3] < zb[idx][2] * z[2]

\* Mutant of depthFails: z >= stored, so the smaller depth wins.
depthFailsReversed(z, zb, idx) ==
    /\ idx \in DOMAIN zb
    /\ (zb[idx][1] = 0 \/ z[1] * zb[idx][3] >= zb[idx][2] * z[2])

\* z <= this.#zBuffer[idx]: false against -Infinity and against undefined.
depthFails(z, zb, idx) ==
    /\ idx \in DOMAIN zb
    /\ zb[idx][1] = 1
    /\ z[1] * zb[idx][3] <= zb[idx][2] * z[2]

\* The texture-space point handed to getPixel: <<u * width, (1 - v) * height>>.
texturePoint(call, bc) ==
    LET tex == Texture(call.texture)
        un == call.t0[1] * bc.n[1] + call.t1[1] * bc.n[2] + call.t2[1] * bc.n[3]
        vn == call.t0[2] * bc.n[1] + call.t1[2] * bc.n[2] + call.t2[2] * bc.n[3]
    IN  <<<<un * tex.width, Q * bc.d>>, <<(Q * bc.d - vn) * tex.height, Q * bc.d>>>>

texel(tp) == <<TruncRat(tp[1][1], tp[1][2]), TruncRat(tp[2][1], tp[2][2])>>

\* The colour of a fragment: the texel, RGB scaled by the intensity.
fragmentColor(call, bc) ==
    LET tp == texturePoint(call, bc)
        c == getPixel(Texture(call.texture), tp[1], tp[2])
    IN  <<scale(c[1], call.intensity), scale(c[2], call.intensity),
          scale(c[3], call.intensity), c[4]>>

\* this.#zBuffer[idx] = z: an index outside the array adds an entry.
zStore(zb, idx, z) ==
    [i \in DOMAIN zb \cup {idx} |-> IF i = idx THEN Finite(z) ELSE zb[i]]

\* One iteration of the inner loop of triangle(), at the pixel <<x, y>>.
fragment(st, w, call, x, y) ==
    LET bc == barycentric(call.v0, call.v1, call.v2, <<x * Q, y * Q>>)
        z == depthOf(call, bc)
        idx == y * w + x
    IN  IF outside(bc) \/ depthFails(z, st.z, idx) THEN st
        ELSE [data |-> pixel(st.data, w, <<x * Q, y * Q>>, fragmentColor(call, bc)),
              z |-> zStore(st.z, idx, z),
              plotted |-> Append(st.plotted, <<x, y>>),
              sampled |-> Append(st.sampled, texel(texturePoint(call, bc)))]

\* The bounding box <<xmin, xmax, ymin, ymax>>.
boundingBox(call) ==
    <<Trunc(Min3(call.v0[1], call.v1[1], call.v2[1])),
      Trunc(Max3(call.v0[1], call.v1[1], call.v2[1])),
      Trunc(Min3(call.v0[2], call.v1[2], call.v2[2])),
      Trunc(Max3(call.v0[2], call.v1[2], call.v2[2]))>>

\* The pixels of the two nested loops, x outermost.
scanOrder(bb) ==
    LET ny == bb[4] - bb[3] + 1
        nx == bb[2] - bb[1] + 1
    IN  [k \in 1..(nx * ny) |-> <<bb[1] + ((k - 1) \div ny), bb[3] + ((k - 1) % ny)>>]

RECURSIVE scan(_, _, _, _)
scan(st, w, call, ps) ==
    IF ps = <<>> THEN st
    ELSE scan(fragment(st, w, call, Head(ps)[1], Head(ps)[2]), w, call, Tail(ps))

triangle(d, zb, w, call) ==
    scan([data |-> d, z |-> zb, plotted |-> <<>>, sampled |-> <<>>],
         w, call, scanOrder(boundingBox(call)))

DrawTriangle(v0, v1, v2, t0, t1, t2, intensity, texture) ==
    /\ status = "ok"
    /\ ops < MaxOps
    /\ LET call == [NoCall EXCEPT !.op = "triangle", !.v0 = v0, !.v1 = v1, !.v2 = v2,
                                  !.t0 = t0, !.t1 = t1, !.t2 = t2,
                                  !.intensity = intensity, !.texture = texture]
       IN  \E r \in {triangle(data, zBuffer, width, call)} :
               /\ last' = call
               /\ data' = r.data
               /\ zBuffer' = r.z
               /\ plotted' = r.plotted
               /\ sampled' = r.sampled
    /\ prev' = last
    /\ ops' = ops + 1
    /\ UNCHANGED <<status, width, height>>

\* ----------------------------------------------------------------- inputs
\* The point with the integer coordinates x, y.
P(x, y) == <<x * Q, y * Q>>

Red == <<200, 0, 0, 255>>

Green == <<0, 200, 0, 128>>

\* In range; x = width; x = -1; and (-1/Q, 1/Q), which truncates to (0, 0).
PixelInputs == {P(1, 1), P(W0, 0), P(-1, 1), <<-1, 1>>}

LineInputs ==
    { <<P(0, 0), P(W0 - 1, 1)>>, <<P(W0 - 1, H0 - 1), P(0, 2)>>,
      <<P(1, 0), P(2, H0 - 1)>>, <<P(W0 - 2, 1), P(W0 + 1, 1)>> }

\* In the buffer (two, overlapping, one with fractional vertices); collinear;
\* reaching x = width; reaching x = -1; reaching y = height.
Shapes ==
    { <<P(0, 0), P(3, 0), P(0, 3)>>,
      <<<<1, 1>>, P(3, 1), P(1, 3)>>,
      <<P(0, 0), P(1, 1), P(3, 3)>>,
      <<P(2, 0), P(W0, 1), P(2, 2)>>,
      <<P(-1, 1), P(1, 0), P(1, 2)>>,
      <<P(1, H0 - 1), P(3, H0 - 1), P(2, H0)>> }

VertexDepths == {<<-1, -1, -1>>, <<0, 1, 2>>}

\* <<t0, t1, t2, intensity, texture>>, every texture coordinate in [0, 1].
Shadings ==
    { <<<<0, 0>>, <<Q, 0>>, <<1, 0>>, Q, 1>>,
      <<<<1, 1>>, <<Q - 1, 1>>, <<1, Q - 1>>, 1, 2>>,
      <<<<0, Q>>, <<Q, Q>>, <<1, 1>>, 2 * Q + 1, 2>> }

\* Every pixel of the buffer, and three points that are not: fractional,
\* left of the buffer, right of it.
LinePoints ==
    {P(x, y) : x \in 0..(W0 - 1), y \in 0..(H0 - 1)} \cup {<<1, Q>>, P(-1, 0), P(W0, 1)}

\* The sizes the constructor is called with.
Sizes == (-MaxDim)..MaxDim

\* ---------------------------------------------------------- specifications
Constructed(w, h) ==
    /\ status = "ok"
    /\ width = Abs(w)
    /\ height = Abs(h)
    /\ data = blackData(w, h)
    /\ zBuffer = newZBuffer(w * h)
    /\ last = [NoCall EXCEPT !.op = "new", !.w = w, !.h = h]
    /\ prev = NoCall
    /\ plotted = <<>>
    /\ sampled = <<>>
    /\ ops = 0

Init == Constructed(W0, H0)

SomePixel == \E v \in PixelInputs : DrawPixel(v, Red)

SomeLine == \E e \in LineInputs : DrawLine(e[1], e[2], Green)

SomeTriangle ==
    \E s \in Shapes, z \in VertexDepths, sh \in Shadings :
        DrawTriangle(<<s[1][1], s[1][2], z[1]>>, <<s[2][1], s[2][2], z[2]>>,
                     <<s[3][1], s[3][2], z[3]>>, sh[1], sh[2], sh[3], sh[4], sh[5])

Next == SomePixel \/ SomeLine \/ SomeTriangle

Spec == Init /\ [][Next]_vars

\* line() alone, on a fresh buffer or after one drawPixel.
LinePrior == ops = 0 /\ \E v \in {P(0, 0), P(1, 2), P(W0 - 1, H0 - 1)} : DrawPixel(v, Red)

LineCall ==
    /\ last.op # "line"
    /\ \E v0 \in LinePoints, v1 \in LinePoints, c \in {Red, Green} : DrawLine(v0, v1, c)

NextLine == LinePrior \/ LineCall

SpecLine == Init /\ [][NextLine]_vars

\* The constructor, and drawPixel on what it built.
InitCtor ==
    /\ status = "none"
    /\ width = 0
    /\ height = 0
    /\ data = NoData
    /\ zBuffer = NoData
    /\ last = NoCall
    /\ prev = NoCall
    /\ plotted = <<>>
    /\ sampled = <<>>
    /\ ops = 0

CtorCall == \E w \in Sizes, h \in Sizes : Construct(w, h)

CtorPixel == \E x \in 0..MaxDim, y \in 0..MaxDim, c \in {Red, Green} : DrawPixel(P(x, y), c)

NextCtor == CtorCall \/ CtorPixel

SpecCtor == InitCtor /\ [][NextCtor]_vars

\* ------------------------------------------------ vocabulary of the claims
IsInt(k) == k % Q = 0

\* v is an integer point inside the buffer.
InBuffer(v) ==
    /\ IsInt(v[1]) /\ IsInt(v[2])
    /\ 0 <= v[1] /\ v[1] < width * Q
    /\ 0 <= v[2] /\ v[2] < height * Q

Pixels == {<<x, y>> : x \in 0..(width - 1), y \in 0..(height - 1)}

SeqSet(sq) == {sq[i] : i \in DOMAIN sq}

\* The four bytes of the in-range pixel p in the pixel buffer d.
BytesAt(d, p) == [i \in 1..4 |-> d[pixelOffset(width, p) + i - 1]]

DepthIndex(p) == p[2] * width + p[1]

Weights(call, p) == barycentric(call.v0, call.v1, call.v2, P(p[1], p[2]))

Degenerate(call) == cross2(call.v0, call.v1, call.v2) = 0

\* p is in the triangle, its edges included.
Covered(call, p) == ~Degenerate(call) /\ \A i \in 1..3 : Weights(call, p).n[i] >= 0

StrictlyInside(call, p) == ~Degenerate(call) /\ \A i \in 1..3 : Weights(call, p).n[i] > 0

StrictlyOutside(call, p) == ~Degenerate(call) /\ \E i \in 1..3 : Weights(call, p).n[i] < 0

\* The three vertices lie inside the buffer.
TriInBounds(call) ==
    \A v \in {call.v0, call.v1, call.v2} :
        0 <= v[1] /\ v[1] < width * Q /\ 0 <= v[2] /\ v[2] < height * Q

SameVertices(a, b) == a.v0 = b.v0 /\ a.v1 = b.v1 /\ a.v2 = b.v2

\* The bytes the fragment of the call at p stores.
FragBytes(call, p) == [i \in 1..4 |-> ToUint8Clamp(fragmentColor(call, Weights(call, p))[i])]

\* Interpolated depth of the call at p, and the order of two depths.
DepthAt(call, p) == depthOf(call, Weights(call, p))

Less(a, b) == a[1] * b[2] < b[1] * a[2]

\* a < b for two stored depth-buffer values.
StoredLess(a, b) == IF a[1] = 0 THEN b[1] = 1 ELSE b[1] = 1 /\ Less(<<a[2], a[3]>>, <<b[2], b[3]>>)

\* The length of the depth array: one more than its greatest index.
zLength(zb) ==
    LET idx == {i \in DOMAIN zb : i >= 0}
    IN  IF idx = {} THEN 0 ELSE 1 + CHOOSE m \in idx : \A i \in idx : i <= m

\* ------------------------------------------------------------------ line
\* C5: drawLine between two integer points inside the buffer writes exactly
\* max(|dx|,|dy|)+1 distinct pixels, one for each integer value of the
\* dominant-axis coordinate between the endpoints (the dominant axis is y
\* iff |dy| > |dx|), writes no pixel twice and changes no other pixel.
C5_LineOnePixelPerStep ==
    [][ (last'.op = "line" /\ InBuffer(last'.v0) /\ InBuffer(last'.v1)) =>
        LET a == last'.v0
            b == last'.v1
            adx == Abs(b[1] - a[1]) \div Q
            ady == Abs(b[2] - a[2]) \div Q
            k == IF ady > adx THEN 2 ELSE 1
            lo == (IF a[k] < b[k] THEN a[k] ELSE b[k]) \div Q
            hi == (IF a[k] < b[k] THEN b[k] ELSE a[k]) \div Q
        IN  /\ Len(plotted') = (IF ady > adx THEN ady ELSE adx) + 1
            /\ \A i, j \in DOMAIN plotted' : i # j => plotted'[i] # plotted'[j]
            /\ \A c \in lo..hi : Cardinality({i \in DOMAIN plotted' : plotted'[i][k] = c}) = 1
            /\ SeqSet(plotted') \subseteq Pixels
            /\ \A p \in Pixels :
                  BytesAt(data', p) =
                      IF p \in SeqSet(plotted') THEN [i \in 1..4 |-> last'.color[i]]
                      ELSE BytesAt(data, p)
            /\ zBuffer' = zBuffer ]_vars

\* A steep line over the whole height of the buffer has been drawn.
WitC5 ==
    /\ last.op = "line" /\ InBuffer(last.v0) /\ InBuffer(last.v1)
    /\ lineSteep(last.v0, last.v1)
    /\ last.v0[1] # last.v1[1]
    /\ Len(plotted) = H0

\* C8: drawLine(p0, p1, c) and drawLine(p1, p0, c), from the same buffer and
\* for integer endpoints inside it, plot the same pixels and leave the same
\* pixel buffer.
C8_LineSymmetric ==
    [][ (last'.op = "line" /\ InBuffer(last'.v0) /\ InBuffer(last'.v1)) =>
        /\ data' = line(data, width, last'.v1, last'.v0, last'.color)
        /\ SeqSet(plotted') = {pixelAt(q) : q \in SeqSet(linePixels(last'.v1, last'.v0))} ]_vars

\* A steep line whose transposed x0 > x1 (so the endpoints are swapped) has
\* been drawn over a buffer that a drawPixel had changed.
WitC8 ==
    /\ last.op = "line" /\ InBuffer(last.v0) /\ InBuffer(last.v1)
    /\ lineSteep(last.v0, last.v1)
    /\ last.v0[2] > last.v1[2]
    /\ last.v0[1] # last.v1[1]
    /\ prev.op = "pixel"
    /\ Len(plotted) > 2

\* -------------------------------------------------------------- triangle
\* C2: a triangle drawn again with the same vertices (so the same depth at
\* every pixel) and another shading changes nothing: every pixel keeps the
\* colour it had after the first call and the depth buffer is unchanged.
C2_DepthTieKeepsFirst ==
    [][ (last'.op = "triangle" /\ last.op = "triangle" /\ SameVertices(last', last)) =>
        (data' = data /\ zBuffer' = zBuffer /\ plotted' = <<>>) ]_vars

\* The same triangle has been drawn twice, the second time with a shading
\* that gives another colour at a pixel the first call wrote.
WitC2 ==
    /\ last.op = "triangle" /\ prev.op = "triangle" /\ SameVertices(last, prev)
    /\ ops = 2
    /\ \E p \in Pixels :
          /\ Covered(last, p)
          /\ FragBytes(last, p) # FragBytes(prev, p)
          /\ BytesAt(data, p) = FragBytes(prev, p)

\* Both calls on a fresh renderer are triangles inside the buffer.
TwoTriangles ==
    /\ ops = 2 /\ last.op = "triangle" /\ prev.op = "triangle"
    /\ TriInBounds(last) /\ TriInBounds(prev)

Overlap == {p \in Pixels : Covered(last, p) /\ Covered(prev, p)}

SecondNearer == \A p \in Overlap : Less(DepthAt(prev, p), DepthAt(last, p))

\* C3: two triangles inside the buffer drawn on a fresh renderer, the second
\* with a strictly greater depth at every pixel both cover: every such pixel
\* holds the second triangle's colour and the second triangle's depth.
C3_GreaterDepthWins ==
    (TwoTriangles /\ SecondNearer) =>
        \A p \in Overlap :
            /\ BytesAt(data, p) = FragBytes(last, p)
            /\ zBuffer[DepthIndex(p)] = Finite(DepthAt(last, p))

\* Two overlapping triangles, the second nearer everywhere and of another
\* colour at a shared pixel, have been drawn.
WitC3 ==
    /\ TwoTriangles /\ SecondNearer
    /\ <<last.v0[1], last.v0[2]>> # <<prev.v0[1], prev.v0[2]>>
    /\ \E p \in Overlap : FragBytes(last, p) # FragBytes(prev, p)

\* C6: a triangle with three collinear vertices writes nothing: the pixel
\* buffer and the depth buffer are what they were before the call.
C6_DegenerateDrawsNothing ==
    [][ (last'.op = "triangle" /\ Degenerate(last')) =>
        (data' = data /\ zBuffer' = zBuffer /\ plotted' = <<>>) ]_vars

\* A collinear triangle has been drawn over a buffer that an earlier
\* triangle had written.
WitC6 ==
    /\ last.op = "triangle" /\ Degenerate(last)
    /\ prev.op = "triangle" /\ ~Degenerate(prev)
    /\ data # blackData(width, height)

\* C4: on a fresh renderer, a triangle of positive area inside the buffer,
\* drawn with intensity 1 and the uniformly white texture, leaves every
\* pixel strictly inside it white and every pixel strictly outside it
\* opaque black with depth -Infinity.
C4_WhiteCoverage ==
    (/\ ops = 1 /\ last.op = "triangle"
     /\ ~Degenerate(last) /\ TriInBounds(last)
     /\ last.intensity = Q /\ last.texture = 1) =>
        \A p \in Pixels :
            /\ StrictlyInside(last, p) => BytesAt(data, p) = <<255, 255, 255, 255>>
            /\ StrictlyOutside(last, p) =>
                  /\ BytesAt(data, p) = <<0, 0, 0, 255>>
                  /\ zBuffer[DepthIndex(p)] = NegInf

\* Every texture coordinate of the call lies in [0, 1].
TexCoordsNormalized(call) ==
    \A t \in {call.t0, call.t1, call.t2} : \A i \in 1..2 : 0 <= t[i] /\ t[i] <= Q

\* C10: when the three texture coordinates lie in [0,1], every texel address
\* handed to the sampler for an accepted pixel is inside the texture.
C10_TexelInsideTexture ==
    (last.op = "triangle" /\ TexCoordsNormalized(last)) =>
        \A i \in DOMAIN sampled :
            /\ 0 <= sampled[i][1] /\ sampled[i][1] < Texture(last.texture).width
            /\ 0 <= sampled[i][2] /\ sampled[i][2] < Texture(last.texture).height

\* ---------------------------------------------------------- out of bounds
\* C1: a pixel address outside [0,W) x [0,H) computed by a draw call is
\* skipped: the only in-range pixels whose bytes or depth the call changes
\* are in-range addresses the call itself computed, and the in-range pixels
\* of a drawPixel or drawLine are drawn.
C1_OutOfBoundsSkipped ==
    [][ (last'.op \in {"pixel", "line", "triangle"}) =>
        /\ \A p \in Pixels :
              (\/ BytesAt(data', p) # BytesAt(data, p)
               \/ zBuffer'[DepthIndex(p)] # zBuffer[DepthIndex(p)])
                  => p \in SeqSet(plotted')
        /\ last'.op \in {"pixel", "line"} =>
              \A p \in SeqSet(plotted') \cap Pixels :
                  BytesAt(data', p) = [i \in 1..4 |-> last'.color[i]] ]_vars

\* C9: over every sequence of calls the depth buffer keeps width*height
\* entries and no entry decreases; drawPixel and drawLine leave it
\* unchanged; drawTriangle changes an entry only to a strictly greater depth
\* and only at a pixel it writes in that call.
C9_DepthBufferMonotonic ==
    [][ /\ zLength(zBuffer') = width * height
        /\ \A i \in DOMAIN zBuffer : zBuffer'[i] = zBuffer[i] \/ StoredLess(zBuffer[i], zBuffer'[i])
        /\ last'.op \in {"pixel", "line"} => zBuffer' = zBuffer
        /\ last'.op = "triangle" =>
              \A i \in DOMAIN zBuffer :
                  zBuffer'[i] # zBuffer[i] => \E q \in SeqSet(plotted') : DepthIndex(q) = i ]_vars

\* ------------------------------------------------------------ constructor
\* C7: the constructor fails when width <= 0 or height <= 0; for positive
\* sizes it yields width*height*4 bytes, every pixel (0,0,0,255), and
\* width*height depths, all -Infinity.
C7_ConstructorValidates ==
    (last.op = "new") =>
        /\ (last.w <= 0 \/ last.h <= 0) => status = "error"
        /\ (last.w > 0 /\ last.h > 0) =>
              /\ status = "ok"
              /\ width = last.w /\ height = last.h
              /\ DOMAIN data = 0..(last.w * last.h * 4 - 1)
              /\ \A p \in Pixels : BytesAt(data, p) = <<0, 0, 0, 255>>
              /\ DOMAIN zBuffer = 0..(last.w * last.h - 1)
              /\ \A i \in DOMAIN zBuffer : zBuffer[i] = NegInf

====
